---------------------------- MODULE Spec2Model ----------------------------
(***************************************************************************)
(* Escrow program (program/src/processor.rs): the three handlers           *)
(* process_init_escrow, process_deposit and process_withdraw, run by the   *)
(* host one attempt at a time over caller-supplied accounts, together with *)
(* the token service they call (set_authority, transfer, close_account).   *)
(***************************************************************************)
EXTENDS Integers, Sequences, FiniteSets, TLC

(***************************************************************************)
(* Bounds of the model.                                                    *)
(***************************************************************************)
\* Largest representable balance: stands for u64::MAX, scaled down.
MaxLamports == 7
\* Largest amount an instruction carries.
MaxAmount == 2

(***************************************************************************)
(* Account keys.                                                           *)
(***************************************************************************)
Wallets == {"A", "B"}
TokenKeys == {"T", "AX", "AY", "BX", "BY"}
EscrowKeys == {"R1", "R2"}
PDA == "PDA"
TokenProgramId == "Token"
RentSysvarId == "Rent"
ZeroKey == "Zero"
Keys == Wallets \cup TokenKeys \cup EscrowKeys \cup {PDA, TokenProgramId, RentSysvarId}

VARIABLES
    tok,    \* token service state: token account key -> [mint, owner, amount, state]
    lam,    \* lamports (storage deposit / balance) of every account
    esc,    \* data buffer of every escrow record account
    last,   \* the attempt in progress and its result, or NoCall between attempts
    ran     \* history: per record, the closing operations that have succeeded on it

vars == <<tok, lam, esc, last, ran>>

NoCall == [op |-> "None", accounts |-> << >>, signers |-> {}, amount |-> 0, res |-> "None"]

\* The account state an attempt reads and writes.
Cur == [tok |-> tok, lam |-> lam, esc |-> esc]

\* An attempt's outcome: its result code and the account state the host keeps.
Res(code, st) == [res |-> code, st |-> st]

Ok == "Ok"

(***************************************************************************)
(* The token-transfer service (spl_token), as the handlers consume it.     *)
(* `signers` is the set of keys whose signature the call carries: the      *)
(* signers of the attempt, plus the derived address under invoke_signed.   *)
(***************************************************************************)
\* TokenAccount::unpack: the key names an initialized token account.
TokenUnpackOk(s, k) == k \in TokenKeys /\ s.tok[k].state = "Initialized"

\* The service's check of the authority of a token account.
ValidateOwner(expected, authority, signers) ==
    IF expected # authority THEN "OwnerMismatch"
    ELSE IF authority \notin signers THEN "MissingRequiredSignature"
    ELSE Ok

\* set_authority(account, Some(new), AccountOwner, owner)
TokenSetAuthority(s, account, newAuthority, owner, signers) ==
    IF ~TokenUnpackOk(s, account) THEN Res("InvalidAccountData", s)
    ELSE LET v == ValidateOwner(s.tok[account].owner, owner, signers) IN
         IF v # Ok THEN Res(v, s)
         ELSE Res(Ok, [s EXCEPT !.tok[account].owner = newAuthority])

\* transfer(source, destination, authority, amount)
TokenTransfer(s, source, destination, authority, signers, amount) ==
    IF ~TokenUnpackOk(s, source) \/ ~TokenUnpackOk(s, destination)
    THEN Res("InvalidAccountData", s)
    ELSE IF s.tok[source].amount < amount THEN Res("InsufficientFunds", s)
    ELSE IF s.tok[source].mint # s.tok[destination].mint THEN Res("MintMismatch", s)
    ELSE LET v == ValidateOwner(s.tok[source].owner, authority, signers) IN
         IF v # Ok THEN Res(v, s)
         ELSE IF source = destination \/ amount = 0 THEN Res(Ok, s)
         ELSE Res(Ok, [s EXCEPT !.tok[source].amount = @ - amount,
                                !.tok[destination].amount = @ + amount])

\* close_account(account, refund target, authority)
TokenCloseAccount(s, account, dest, authority, signers) ==
    IF account = dest THEN Res("InvalidAccountData", s)
    ELSE IF ~TokenUnpackOk(s, account) THEN Res("InvalidAccountData", s)
    ELSE IF s.tok[account].amount # 0 THEN Res("NonNativeHasBalance", s)
    ELSE LET v == ValidateOwner(s.tok[account].owner, authority, signers) IN
         IF v # Ok THEN Res(v, s)
         ELSE IF s.lam[dest] + s.lam[account] > MaxLamports THEN Res("Overflow", s)
         ELSE Res(Ok, [s EXCEPT !.lam[dest] = @ + s.lam[account],
                                !.lam[account] = 0,
                                !.tok[account].state = "Closed"])

\* The service's instruction builders reject any program id but the service's own.
CheckProgramAccount(tokenProgram) == tokenProgram = TokenProgramId

(***************************************************************************)
(* The escrow record (state::Escrow) and its storage layout: a buffer of   *)
(* EscrowLen fields, <<initialized, initializer, held, receive, amount>>,  *)
(* all zero before Init and of length zero once the record is closed.      *)
(***************************************************************************)
EscrowLen == 5
ZeroData == <<0, ZeroKey, ZeroKey, ZeroKey, 0>>
EmptyData == << >>

\* Escrow::pack
EscrowPack(e) ==
    << IF e.is_initialized THEN 1 ELSE 0,
       e.initializer_pubkey,
       e.temp_token_account_pubkey,
       e.initializer_token_to_receive_account_pubkey,
       e.expected_amount >>

\* Escrow::unpack_unchecked: the buffer must have the record's length.
EscrowUnpackUnchecked(data) ==
    IF Len(data) # EscrowLen \/ data[1] \notin {0, 1}
    THEN [res |-> "InvalidAccountData"]
    ELSE [res |-> Ok,
          val |-> [is_initialized |-> data[1] = 1,
                   initializer_pubkey |-> data[2],
                   temp_token_account_pubkey |-> data[3],
                   initializer_token_to_receive_account_pubkey |-> data[4],
                   expected_amount |-> data[5]]]

\* Escrow::unpack: as unpack_unchecked, and the record must be initialized.
EscrowUnpack(data) ==
    LET u == EscrowUnpackUnchecked(data) IN
    IF u.res # Ok THEN u
    ELSE IF ~u.val.is_initialized THEN [res |-> "UninitializedAccount"]
    ELSE u

\* The data buffer of the account at `k` as a record buffer (only record
\* accounts have the record's length; any other account's buffer does not).
DataOf(s, k) == IF k \in EscrowKeys THEN s.esc[k] ELSE EmptyData

IsActive(data) == Len(data) = EscrowLen /\ data[1] = 1

(***************************************************************************)
(* The host: storage-cost exemption and positional accounts.               *)
(***************************************************************************)
\* The owner program of an account (a closed account is the system's again).
OwnerProgram(s, k) ==
    IF k \in TokenKeys /\ s.tok[k].state = "Initialized" THEN TokenProgramId
    ELSE IF k \in EscrowKeys /\ s.esc[k] # EmptyData THEN "Escrow"
    ELSE "System"

\* Rent::is_exempt for a record account.
RentExemptMinimum == 1
IsExempt(lamports) == lamports >= RentExemptMinimum

\* next_account_info: position i of the supplied accounts, if supplied.
HasAccount(accounts, i) == i <= Len(accounts)

(***************************************************************************)
(* Processor::process_init_escrow                                          *)
(***************************************************************************)
\* A record with the holding and the receive account in each other's field.
InitEscrowInfoSwapped(initializer, temp_token_account, token_to_receive_account, amount) ==
    [is_initialized |-> TRUE,
     initializer_pubkey |-> initializer,
     temp_token_account_pubkey |-> token_to_receive_account,
     initializer_token_to_receive_account_pubkey |-> temp_token_account,
     expected_amount |-> amount]

\* The record Init writes.
InitEscrowInfo(initializer, temp_token_account, token_to_receive_account, amount) ==
    [is_initialized |-> TRUE,
     initializer_pubkey |-> initializer,
     temp_token_account_pubkey |-> temp_token_account,
     initializer_token_to_receive_account_pubkey |-> token_to_receive_account,
     expected_amount |-> amount]

\* A handler that never finds the record initialized.
InitAlreadyInitializedSkipped(escrow_info) == FALSE

\* The check that the record has been initialized already.
InitAlreadyInitialized(escrow_info) == escrow_info.is_initialized

\* A handler that takes the initializer's signature for granted.
InitSignerUnchecked(initializer, signers) == TRUE

\* initializer.is_signer
InitInitializerSigned(initializer, signers) == initializer \in signers

\* A handler that ignores the delegation call's failure.
InitDelegationErrorIgnored(s, packed, r) ==
    IF r.res # Ok THEN Res(Ok, packed) ELSE Res(Ok, r.st)

\* invoke(&owner_change_ix, ..)?: the call's error is the attempt's, and the
\* host then discards the record written before the call.
InitDelegationOutcome(s, packed, r) ==
    IF r.res # Ok THEN Res(r.res, s) ELSE Res(Ok, r.st)

ProcessInitEscrow(s, accounts, signers, amount) ==
    IF ~HasAccount(accounts, 1) THEN Res("NotEnoughAccountKeys", s)
    ELSE LET initializer == accounts[1] IN
    IF ~InitInitializerSigned(initializer, signers) THEN Res("MissingRequiredSignature", s)
    ELSE IF ~HasAccount(accounts, 3) THEN Res("NotEnoughAccountKeys", s)
    ELSE LET temp_token_account == accounts[2]
             token_to_receive_account == accounts[3] IN
    IF OwnerProgram(s, token_to_receive_account) # TokenProgramId
    THEN Res("IncorrectProgramId", s)
    ELSE IF ~HasAccount(accounts, 5) THEN Res("NotEnoughAccountKeys", s)
    ELSE LET escrow_account == accounts[4] IN
    IF accounts[5] # RentSysvarId THEN Res("InvalidArgument", s)
    ELSE IF ~IsExempt(s.lam[escrow_account]) THEN Res("NotRentExempt", s)
    ELSE LET u == EscrowUnpackUnchecked(DataOf(s, escrow_account)) IN
    IF u.res # Ok THEN Res(u.res, s)
    ELSE IF InitAlreadyInitialized(u.val) THEN Res("AccountAlreadyInitialized", s)
    ELSE LET escrow_info == InitEscrowInfo(initializer, temp_token_account,
                                           token_to_receive_account, amount)
             packed == [s EXCEPT !.esc[escrow_account] = EscrowPack(escrow_info)] IN
    IF ~HasAccount(accounts, 6) THEN Res("NotEnoughAccountKeys", s)
    ELSE IF ~CheckProgramAccount(accounts[6]) THEN Res("IncorrectProgramId", s)
    ELSE InitDelegationOutcome(s, packed,
             TokenSetAuthority(packed, temp_token_account, PDA, initializer, signers))

(***************************************************************************)
(* Processor::process_deposit                                              *)
(***************************************************************************)
\* A handler that takes any holding account for the record's.
DepositTempAccountUnchecked(escrow_info, pdas_temp_token_account) == TRUE

\* The record's held account is the supplied holding account.
DepositTempAccountMatches(escrow_info, pdas_temp_token_account) ==
    escrow_info.temp_token_account_pubkey = pdas_temp_token_account

\* The record's initializer is the supplied initializer main account.
DepositInitializerMatches(escrow_info, initializers_main_account) ==
    escrow_info.initializer_pubkey = initializers_main_account

\* The one transfer the handler issues: from the taker's sending account to
\* the holding account, of the instruction's amount, signed by the taker.
DepositTransfer(s, takers_sending_token_account, pdas_temp_token_account, taker, signers, amount_deposit) ==
    TokenTransfer(s, takers_sending_token_account, pdas_temp_token_account,
                  taker, signers, amount_deposit)

\* taker.is_signer
DepositTakerSigned(taker, signers) == taker \in signers

\* A handler that reads the record without requiring it to be initialized.
DepositReadRecordUnchecked(data) == EscrowUnpackUnchecked(data)

\* Escrow::unpack(&escrow_account.try_borrow_data()?)
DepositReadRecord(data) == EscrowUnpack(data)

ProcessDeposit(s, accounts, signers, amount_deposit) ==
    IF ~HasAccount(accounts, 1) THEN Res("NotEnoughAccountKeys", s)
    ELSE LET taker == accounts[1] IN
    IF ~DepositTakerSigned(taker, signers) THEN Res("MissingRequiredSignature", s)
    ELSE IF ~HasAccount(accounts, 3) THEN Res("NotEnoughAccountKeys", s)
    ELSE LET takers_sending_token_account == accounts[2]
             pdas_temp_token_account == accounts[3] IN
    IF ~TokenUnpackOk(s, pdas_temp_token_account) THEN Res("InvalidAccountData", s)
    ELSE IF ~HasAccount(accounts, 5) THEN Res("NotEnoughAccountKeys", s)
    ELSE LET initializers_main_account == accounts[4]
             escrow_account == accounts[5]
             u == DepositReadRecord(DataOf(s, escrow_account)) IN
    IF u.res # Ok THEN Res(u.res, s)
    ELSE IF ~DepositTempAccountMatches(u.val, pdas_temp_token_account)
    THEN Res("InvalidAccountData", s)
    ELSE IF ~DepositInitializerMatches(u.val, initializers_main_account)
    THEN Res("InvalidAccountData", s)
    ELSE IF ~HasAccount(accounts, 6) THEN Res("NotEnoughAccountKeys", s)
    ELSE IF ~CheckProgramAccount(accounts[6]) THEN Res("IncorrectProgramId", s)
    ELSE LET r == DepositTransfer(s, takers_sending_token_account,
                                  pdas_temp_token_account, taker, signers,
                                  amount_deposit) IN
    IF r.res # Ok THEN Res(r.res, s)
    ELSE Res(Ok, r.st)

(***************************************************************************)
(* Processor::process_withdraw                                             *)
(***************************************************************************)
WithdrawTempAccountMatches(escrow_info, pdas_temp_token_account) ==
    escrow_info.temp_token_account_pubkey = pdas_temp_token_account

\* A handler that takes any main account for the record's initializer.
WithdrawInitializerUnchecked(escrow_info, initializers_main_account) == TRUE

WithdrawInitializerMatches(escrow_info, initializers_main_account) ==
    escrow_info.initializer_pubkey = initializers_main_account

\* A transfer of the instruction's amount instead of the whole balance.
WithdrawTransferInstructionAmount(pdas_temp_token_account_info, amount_withdraw) ==
    amount_withdraw

\* The amount the handler moves out of the holding account.
WithdrawTransferAmount(pdas_temp_token_account_info, amount_withdraw) ==
    pdas_temp_token_account_info.amount

\* An addition that wraps at the balance's width instead of failing.
WithdrawWrappingAdd(a, b) == (a + b) % (MaxLamports + 1)

\* lamports().checked_add(escrow_account.lamports()): -1 stands for None.
WithdrawCheckedAdd(a, b) == IF a + b > MaxLamports THEN -1 ELSE a + b

\* A close that reclaims the deposit and leaves the record's buffer in place.
WithdrawCloseEscrowKeepsData(s, initializers_main_account, escrow_account, sum) ==
    LET credited == [s EXCEPT !.lam[initializers_main_account] = sum] IN
    [credited EXCEPT !.lam[escrow_account] = 0]

\* Closing the record: the reclaimed deposit, the zeroed balance, the cleared buffer.
WithdrawCloseEscrow(s, initializers_main_account, escrow_account, sum) ==
    LET credited == [s EXCEPT !.lam[initializers_main_account] = sum]
        zeroed == [credited EXCEPT !.lam[escrow_account] = 0] IN
    [zeroed EXCEPT !.esc[escrow_account] = EmptyData]

\* Escrow::unpack(&escrow_account.try_borrow_data()?)
WithdrawReadRecord(data) == EscrowUnpack(data)

ProcessWithdraw(s, accounts, signers, amount_withdraw) ==
    IF ~HasAccount(accounts, 1) THEN Res("NotEnoughAccountKeys", s)
    ELSE LET pdas_temp_token_account == accounts[1] IN
    IF ~TokenUnpackOk(s, pdas_temp_token_account) THEN Res("InvalidAccountData", s)
    ELSE IF ~HasAccount(accounts, 4) THEN Res("NotEnoughAccountKeys", s)
    ELSE LET pdas_temp_token_account_info == s.tok[pdas_temp_token_account]
             initializers_main_account == accounts[2]
             initializers_token_to_receive_account == accounts[3]
             escrow_account == accounts[4]
             u == WithdrawReadRecord(DataOf(s, escrow_account)) IN
    IF u.res # Ok THEN Res(u.res, s)
    ELSE IF ~WithdrawTempAccountMatches(u.val, pdas_temp_token_account)
    THEN Res("InvalidAccountData", s)
    ELSE IF ~WithdrawInitializerMatches(u.val, initializers_main_account)
    THEN Res("InvalidAccountData", s)
    ELSE IF ~HasAccount(accounts, 6) THEN Res("NotEnoughAccountKeys", s)
    ELSE IF ~CheckProgramAccount(accounts[5]) THEN Res("IncorrectProgramId", s)
    ELSE IF accounts[6] # PDA THEN Res("MissingAccount", s)
    ELSE LET t == TokenTransfer(s, pdas_temp_token_account,
                                initializers_token_to_receive_account, PDA,
                                signers \cup {PDA},
                                WithdrawTransferAmount(pdas_temp_token_account_info,
                                                       amount_withdraw)) IN
    IF t.res # Ok THEN Res(t.res, s)
    ELSE LET c == TokenCloseAccount(t.st, pdas_temp_token_account,
                                    initializers_main_account, PDA,
                                    signers \cup {PDA}) IN
    IF c.res # Ok THEN Res(c.res, s)
    ELSE LET sum == WithdrawCheckedAdd(c.st.lam[initializers_main_account],
                                       c.st.lam[escrow_account]) IN
    IF sum = -1 THEN Res("AmountOverflow", s)
    ELSE Res(Ok, WithdrawCloseEscrow(c.st, initializers_main_account,
                                     escrow_account, sum))

(***************************************************************************)
(* The attempts a caller can submit: positional accounts, the signers of   *)
(* the attempt and the instruction's amount.                               *)
(***************************************************************************)
Amounts == 0..MaxAmount
SignerChoices == {{}, {"A"}, {"B"}}

\* The trailing accounts of an attempt: the right ones, a wrong one in either
\* position, and the list cut short by one.
InitTails == {<<RentSysvarId, TokenProgramId>>, <<TokenProgramId, TokenProgramId>>,
              <<RentSysvarId, RentSysvarId>>, <<RentSysvarId>>}
DepositTails == {<<TokenProgramId>>, <<RentSysvarId>>, << >>}
WithdrawTails == {<<TokenProgramId, PDA>>, <<RentSysvarId, PDA>>,
                  <<TokenProgramId, "B">>, <<TokenProgramId>>}

InitAccountChoices ==
    {<<i, t, r, e>> \o tail :
        i \in Wallets, t \in {"T", "AX", "A"}, r \in {"AY", "B"},
        e \in {"R1", "R2", "T"}, tail \in InitTails}

DepositAccountChoices ==
    {<<k, f, t, m, e>> \o tail :
        k \in Wallets, f \in {"BX", "BY"}, t \in {"T", "AX", "A"},
        m \in Wallets, e \in EscrowKeys, tail \in DepositTails}

WithdrawAccountChoices ==
    {<<t, m, r, e>> \o tail :
        t \in {"T", "AX", "A"}, m \in Wallets, r \in {"AX", "BX", "AY", "T"},
        e \in EscrowKeys, tail \in WithdrawTails}

(***************************************************************************)
(* The state machine.                                                      *)
(***************************************************************************)
InitialMainBalances == {1, MaxLamports - 1, MaxLamports}

Init ==
    /\ tok = [k \in TokenKeys |->
                [mint |-> IF k \in {"AY", "BY"} THEN "Y" ELSE "X",
                 owner |-> IF k \in {"BX", "BY"} THEN "B" ELSE "A",
                 amount |-> IF k = "T" THEN MaxAmount
                            ELSE IF k \in {"BX", "BY"} THEN 1 ELSE 0,
                 state |-> "Initialized"]]
    /\ \E a \in InitialMainBalances :
         lam = [k \in Keys |-> IF k = "A" THEN a
                                ELSE IF k \in EscrowKeys THEN RentExemptMinimum ELSE 1]
    /\ esc = [k \in EscrowKeys |-> ZeroData]
    /\ last = NoCall
    /\ ran = [k \in EscrowKeys |-> {}]

\* The host applies an attempt's outcome: all of its writes, or none of them.
Apply(op, accounts, signers, amount, r) ==
    /\ tok' = r.st.tok
    /\ lam' = r.st.lam
    /\ esc' = r.st.esc
    /\ last' = [op |-> op, accounts |-> accounts, signers |-> signers,
                amount |-> amount, res |-> r.res]

\* Tag 0: Init, attempted with accounts, signers and an amount of the given sets.
InitEscrowFrom(accountChoices, signerChoices, amounts) ==
    /\ last = NoCall
    /\ \E accounts \in accountChoices, signers \in signerChoices, amount \in amounts :
         Apply("InitEscrow", accounts, signers, amount,
               ProcessInitEscrow(Cur, accounts, signers, amount))
    /\ UNCHANGED ran

\* Tag 1: Exchange
DepositFrom(accountChoices, signerChoices, amounts) ==
    /\ last = NoCall
    /\ \E accounts \in accountChoices, signers \in signerChoices, amount \in amounts :
         LET r == ProcessDeposit(Cur, accounts, signers, amount) IN
         /\ Apply("Deposit", accounts, signers, amount, r)
         /\ ran' = IF r.res = Ok THEN [ran EXCEPT ![accounts[5]] = @ \cup {"Deposit"}]
                   ELSE ran

\* Tag 2: Cancel
WithdrawFrom(accountChoices, signerChoices, amounts) ==
    /\ last = NoCall
    /\ \E accounts \in accountChoices, signers \in signerChoices, amount \in amounts :
         LET r == ProcessWithdraw(Cur, accounts, signers, amount) IN
         /\ Apply("Withdraw", accounts, signers, amount, r)
         /\ ran' = IF r.res = Ok THEN [ran EXCEPT ![accounts[4]] = @ \cup {"Withdraw"}]
                   ELSE ran

InitEscrow == InitEscrowFrom(InitAccountChoices, SignerChoices, Amounts)

Deposit == DepositFrom(DepositAccountChoices, SignerChoices, Amounts)

Withdraw == WithdrawFrom(WithdrawAccountChoices, SignerChoices, Amounts)

\* The attempt is over: the host hands the result to the caller.
Return ==
    /\ last # NoCall
    /\ last' = NoCall
    /\ UNCHANGED <<tok, lam, esc, ran>>

Next == InitEscrow \/ Deposit \/ Withdraw \/ Return

Spec == Init /\ [][Next]_vars

(***************************************************************************)
(* The token service called directly: the owner of a key's signature is    *)
(* all a caller needs to submit a transfer, set-authority or close-account *)
(* of its own, outside the escrow program.  The derived address has no     *)
(* private key, so no such call carries its signature.                     *)
(***************************************************************************)
DirectAccounts == {"T", "AX"}
DirectTargets == {"AX", "BX"}

DirectTransfer ==
    /\ last = NoCall
    /\ \E w \in Wallets, a \in DirectAccounts, d \in DirectTargets, n \in 1..MaxAmount :
         Apply("DirectTransfer", <<a, d, w>>, {w}, n,
               TokenTransfer(Cur, a, d, w, {w}, n))
    /\ UNCHANGED ran

DirectSetAuthority ==
    /\ last = NoCall
    /\ \E w \in Wallets, a \in DirectAccounts, new \in Wallets :
         Apply("DirectSetAuthority", <<a, new, w>>, {w}, 0,
               TokenSetAuthority(Cur, a, new, w, {w}))
    /\ UNCHANGED ran

DirectCloseAccount ==
    /\ last = NoCall
    /\ \E w \in Wallets, a \in DirectAccounts :
         Apply("DirectCloseAccount", <<a, w, w>>, {w}, 0,
               TokenCloseAccount(Cur, a, w, w, {w}))
    /\ UNCHANGED ran

\* The handlers' attempts that go with the direct calls: complete account
\* lists over the accounts the direct calls act on, signed by one caller.
EnvSignerChoices == {{"A"}, {"B"}}
EnvInitChoices ==
    {<<i, t, "AY", e, RentSysvarId, TokenProgramId>> :
        i \in Wallets, t \in DirectAccounts, e \in EscrowKeys}
EnvDepositChoices ==
    {<<k, f, t, m, e, TokenProgramId>> :
        k \in Wallets, f \in DirectTargets, t \in DirectAccounts,
        m \in Wallets, e \in EscrowKeys}
EnvWithdrawChoices ==
    {<<t, m, r, e, TokenProgramId, PDA>> :
        t \in DirectAccounts, m \in Wallets, r \in DirectTargets, e \in EscrowKeys}

EnvInitEscrow == InitEscrowFrom(EnvInitChoices, EnvSignerChoices, {MaxAmount})

EnvDeposit == DepositFrom(EnvDepositChoices, EnvSignerChoices, {1})

EnvWithdraw == WithdrawFrom(EnvWithdrawChoices, EnvSignerChoices, {0})

NextEnv ==
    \/ EnvInitEscrow \/ EnvDeposit \/ EnvWithdraw \/ Return
    \/ DirectTransfer \/ DirectSetAuthority \/ DirectCloseAccount

SpecEnv == Init /\ [][NextEnv]_vars

(***************************************************************************)
(* The initializer's own Cancel.  The initializer of the record at k reads *)
(* the record, names its holding account and its own main account, picks a *)
(* live token account of the held asset's mint to receive the balance, and *)
(* signs alone.  Every attempt returns to the host; the initializer of an  *)
(* active record keeps submitting its Cancel.                              *)
(***************************************************************************)
ReceiveChoices(k) ==
    LET t == EscrowUnpackUnchecked(esc[k]).val.temp_token_account_pubkey IN
    {r \in TokenKeys : /\ r # t
                       /\ tok[r].state = "Initialized"
                       /\ tok[r].mint = tok[t].mint}

InitializerCancelAccounts(k) ==
    LET info == EscrowUnpackUnchecked(esc[k]).val IN
    {<<info.temp_token_account_pubkey, info.initializer_pubkey, r, k,
       TokenProgramId, PDA>> : r \in ReceiveChoices(k)}

InitializerCancel(k) ==
    /\ IsActive(esc[k])
    /\ WithdrawFrom(InitializerCancelAccounts(k),
                    {{EscrowUnpackUnchecked(esc[k]).val.initializer_pubkey}}, {0})

InitializerCancels == \E k \in EscrowKeys : InitializerCancel(k)

NextFair ==
    \/ EnvInitEscrow \/ EnvDeposit \/ EnvWithdraw \/ InitializerCancels \/ Return

SpecFair ==
    /\ Init /\ [][NextFair]_vars
    /\ WF_vars(Return)
    /\ \A k \in EscrowKeys : SF_vars(InitializerCancel(k))

(***************************************************************************)
(* Properties.  An attempt is one step from a state with last = NoCall to  *)
(* a state whose `last` holds the attempt and its result; the unprimed     *)
(* variables of such a step are the state before the attempt.              *)
(***************************************************************************)
\* Position i of an attempt's accounts.
Acc(l, i) == IF i <= Len(l.accounts) THEN l.accounts[i] ELSE "None"

\* The step is an attempt of operation op.
Attempt(op) == last = NoCall /\ last'.op = op

NothingChanged == UNCHANGED <<tok, lam, esc>>

\* The fields of the record stored at k.
RecordAt(k) == EscrowUnpackUnchecked(esc[k]).val

\* Init's checks that come before the record is read.
InitEarlyErrors == {"NotEnoughAccountKeys", "MissingRequiredSignature",
                    "IncorrectProgramId", "InvalidArgument", "NotRentExempt"}

\* The attempt passes every check of Init that comes before the record is read.
InitReachesRecord(l) ==
    /\ Len(l.accounts) >= 5
    /\ l.accounts[1] \in l.signers
    /\ OwnerProgram(Cur, l.accounts[3]) = TokenProgramId
    /\ l.accounts[5] = RentSysvarId
    /\ IsExempt(lam[l.accounts[4]])

\* C1 (as stated): every Init attempt on an already initialized record fails
\* with AccountAlreadyInitialized and leaves the record as the first Init wrote it.
C1_AsStated ==
    [][(Attempt("InitEscrow") /\ Acc(last', 4) \in EscrowKeys
        /\ IsActive(esc[Acc(last', 4)]))
       => (last'.res = "AccountAlreadyInitialized" /\ esc' = esc)]_vars

\* C1 (amended): an Init attempt on an already initialized record never
\* succeeds and changes nothing; it fails with AccountAlreadyInitialized when
\* it passes the checks that come first (signer, receive account's owner,
\* exemption oracle, exemption), and with one of those checks' errors otherwise.
C1_InitAtMostOnce ==
    [][(Attempt("InitEscrow") /\ Acc(last', 4) \in EscrowKeys
        /\ IsActive(esc[Acc(last', 4)]))
       => /\ last'.res # Ok
          /\ NothingChanged
          /\ InitReachesRecord(last') => last'.res = "AccountAlreadyInitialized"
          /\ ~InitReachesRecord(last') => last'.res \in InitEarlyErrors]_vars

\* C1 witness: a second Init on an active record was rejected at the record check.
C1_Witness ==
    /\ last.op = "InitEscrow" /\ last.res = "AccountAlreadyInitialized"
    /\ IsActive(esc[last.accounts[4]])
    /\ RecordAt(last.accounts[4]).temp_token_account_pubkey # last.accounts[2]

\* C2: once a successful Exchange or Cancel has run on a record, no later
\* Exchange or Cancel on that record succeeds.
C2_ClosedExactlyOnce ==
    [][((Attempt("Deposit") /\ last'.res = Ok) => ran[last'.accounts[5]] = {})
       /\ ((Attempt("Withdraw") /\ last'.res = Ok) => ran[last'.accounts[4]] = {})]_vars

\* C3: no Exchange whose amount differs from the record's expected_amount succeeds.
C3_AmountMismatchRejected ==
    (last.op = "Deposit" /\ last.res = Ok)
    => last.amount = RecordAt(last.accounts[5]).expected_amount

\* C4: a successful Exchange leaves the holding account closed with zero
\* balance and the record closed with zero-length data and zero backing
\* balance, both deposits credited to the initializer's main account.
C4_ExchangeDeliversAndCloses ==
    [][(Attempt("Deposit") /\ last'.res = Ok)
       => LET temp == last'.accounts[3]
              main == last'.accounts[4]
              rec == last'.accounts[5] IN
          /\ tok'[temp].state = "Closed" /\ tok'[temp].amount = 0
          /\ esc'[rec] = EmptyData /\ lam'[rec] = 0
          /\ lam'[main] = lam[main] + lam[temp] + lam[rec]]_vars

\* C5: a successful Exchange credits the instruction's amount to the receive
\* account recorded at Init and does not increase the holding account's balance.
C5_CounterAssetToInitializer ==
    [][(Attempt("Deposit") /\ last'.res = Ok)
       => LET temp == last'.accounts[3]
              recv == RecordAt(last'.accounts[5]).initializer_token_to_receive_account_pubkey IN
          /\ tok'[recv].amount = tok[recv].amount + last'.amount
          /\ tok'[temp].amount <= tok[temp].amount]_vars

\* C6: a successful Cancel on an active record on which no Exchange has run
\* credits the supplied receive account with the holding account's whole
\* balance (whatever amount the instruction carries), leaves the holding
\* account closed with zero balance and the record closed with zero-length
\* data and zero backing balance, and adds both storage deposits to the
\* initializer's main account.
C6_CancelPath ==
    [][(Attempt("Withdraw") /\ last'.res = Ok /\ "Deposit" \notin ran[last'.accounts[4]])
       => LET temp == last'.accounts[1]
              main == last'.accounts[2]
              recv == last'.accounts[3]
              rec == last'.accounts[4] IN
          /\ IsActive(esc[rec])
          /\ tok'[recv].amount = tok[recv].amount + tok[temp].amount
          /\ tok'[temp].state = "Closed" /\ tok'[temp].amount = 0 /\ lam'[temp] = 0
          /\ esc'[rec] = EmptyData /\ lam'[rec] = 0
          /\ lam'[main] = lam[main] + lam[temp] + lam[rec]
          /\ \A a \in Amounts :
                ProcessWithdraw(Cur, last'.accounts, last'.signers, a).res = Ok]_vars

\* C6 witness: a Cancel with no Exchange before it has moved a non-zero held
\* balance, which differs from the instruction's amount, to the receive account.
C6_Witness ==
    /\ last.op = "Withdraw" /\ last.res = Ok
    /\ ran[last.accounts[4]] = {"Withdraw"}
    /\ tok[last.accounts[3]].amount = MaxAmount
    /\ last.amount # MaxAmount
    /\ tok[last.accounts[1]].state = "Closed"
    /\ esc[last.accounts[4]] = EmptyData

\* C7: no Cancel succeeds unless the record's initializer signed the attempt.
C7_OnlyInitializerCancels ==
    (last.op = "Withdraw" /\ last.res = Ok) => last.accounts[2] \in last.signers

\* The attempt names an active record and a holding account other than the
\* one the record names (rec is the record's position in the account list).
HeldMismatch(l, temp, rec) ==
    /\ Acc(l, rec) \in EscrowKeys
    /\ IsActive(esc[Acc(l, rec)])
    /\ Acc(l, temp) # RecordAt(Acc(l, rec)).temp_token_account_pubkey

InitializerMismatch(l, main, rec) ==
    /\ Acc(l, rec) \in EscrowKeys
    /\ IsActive(esc[Acc(l, rec)])
    /\ Acc(l, main) # RecordAt(Acc(l, rec)).initializer_pubkey

C10_RentReclaimNeverWraps ==
    [][(Attempt("Withdraw") /\ last'.res \in {Ok, "AmountOverflow"})
       => LET main == last'.accounts[2]
              balance == lam[main] + lam[last'.accounts[1]]
              deposit == lam[last'.accounts[4]] IN
          IF balance + deposit > MaxLamports
          THEN last'.res = "AmountOverflow" /\ NothingChanged
          ELSE /\ last'.res = Ok
               /\ lam'[main] = balance + deposit
               /\ lam'[last'.accounts[4]] = 0]_vars

\* C10 witness: a Cancel was refused for overflow after its token transfer and
\* its close of the holding account, both of which the host discarded.
C10_Witness ==
    /\ last.op = "Withdraw" /\ last.res = "AmountOverflow"
    /\ lam[last.accounts[2]] + lam[last.accounts[1]] <= MaxLamports
    /\ tok[last.accounts[1]].state = "Initialized"
    /\ tok[last.accounts[1]].amount > 0
    /\ IsActive(esc[last.accounts[4]])

\* The handlers' operations.
HandlerOps == {"InitEscrow", "Deposit", "Withdraw"}

\* The holding account named by the record at k is a live token account whose
\* authority is the derived address.
HoldingDelegated(k) ==
    LET t == RecordAt(k).temp_token_account_pubkey IN
    /\ t \in TokenKeys
    /\ tok[t].state = "Initialized"
    /\ tok[t].owner = PDA

\* C11: every failed Init, Exchange or Cancel leaves record contents, token
\* balances, authorities and storage deposits as they were, and in every
\* reachable state the holding account of every initialized record is
\* controlled by the derived address (Init's record write and its delegation
\* take effect together or not at all).
C11_FailedAttemptIsNoOp ==
    /\ [](\A k \in EscrowKeys : IsActive(esc[k]) => HoldingDelegated(k))
    /\ [][(last = NoCall /\ last'.op \in HandlerOps /\ last'.res # Ok)
          => NothingChanged]_vars

\* C11 witness: an Init wrote its record and then failed in the delegation
\* call (the initializer is not the holding account's authority); the record
\* is uninitialized afterwards.
C11_Witness ==
    /\ last.op = "InitEscrow" /\ last.res = "OwnerMismatch"
    /\ esc[last.accounts[4]] = ZeroData
    /\ tok[last.accounts[2]].owner # PDA

\* C12: an Init whose initializer did not sign and an Exchange whose taker did
\* not sign fail with MissingRequiredSignature and change nothing.
C12_FirstAccountMustSign ==
    [][((Attempt("InitEscrow") \/ Attempt("Deposit"))
        /\ last'.accounts[1] \notin last'.signers)
       => (last'.res = "MissingRequiredSignature" /\ NothingChanged)]_vars

\* C12 witness: an Exchange that only lacks the taker's signature (the record
\* is active, the accounts are the record's, the taker's funds suffice) was refused.
C12_Witness ==
    /\ last.op = "Deposit" /\ last.res = "MissingRequiredSignature"
    /\ Len(last.accounts) = 6 /\ last.accounts[6] = TokenProgramId
    /\ IsActive(esc[last.accounts[5]])
    /\ RecordAt(last.accounts[5]).temp_token_account_pubkey = last.accounts[3]
    /\ RecordAt(last.accounts[5]).initializer_pubkey = last.accounts[4]
    /\ tok[last.accounts[2]].owner = last.accounts[1]
    /\ tok[last.accounts[2]].mint = tok[last.accounts[3]].mint
    /\ tok[last.accounts[2]].amount >= last.amount /\ last.amount > 0

\* C13: a successful Init leaves the record initialized with the signing
\* initializer, the supplied holding and receive accounts and the
\* instruction's amount, and moves the holding account's authority from the
\* initializer to the derived address.
C13_InitWritesRecordAndDelegates ==
    [][(Attempt("InitEscrow") /\ last'.res = Ok)
       => LET u == EscrowUnpack(esc'[last'.accounts[4]]) IN
          /\ u.res = Ok
          /\ u.val.is_initialized
          /\ u.val.initializer_pubkey = last'.accounts[1]
          /\ last'.accounts[1] \in last'.signers
          /\ u.val.temp_token_account_pubkey = last'.accounts[2]
          /\ u.val.initializer_token_to_receive_account_pubkey = last'.accounts[3]
          /\ u.val.expected_amount = last'.amount
          /\ tok[last'.accounts[2]].owner = last'.accounts[1]
          /\ tok'[last'.accounts[2]].owner = PDA]_vars

\* C13 witness: two escrows are active, each with its own holding account,
\* both delegated to the one derived address.
C13_Witness ==
    /\ last.op = "InitEscrow" /\ last.res = Ok /\ last.amount > 0
    /\ \A k \in EscrowKeys : IsActive(esc[k]) /\ HoldingDelegated(k)
    /\ RecordAt("R1").temp_token_account_pubkey # RecordAt("R2").temp_token_account_pubkey

\* The attempt l names the record storage k in its operation's record position.
NamesRecord(l, k) ==
    \/ l.op = "InitEscrow" /\ Acc(l, 4) = k
    \/ l.op = "Deposit" /\ Acc(l, 5) = k
    \/ l.op = "Withdraw" /\ Acc(l, 4) = k

\* A Cancel has succeeded on the record at k.
Cancelled(k) == "Withdraw" \in ran[k]

\* C14: once a Cancel has succeeded on a record, the record is never active
\* again, every later Init, Exchange or Cancel naming its storage fails and
\* changes nothing, and the holding account the Cancel closed is never moved
\* or closed again.
C14_CancelIsTerminal ==
    /\ [](\A k \in EscrowKeys : Cancelled(k) => esc[k] = EmptyData)
    /\ [][/\ \A k \in EscrowKeys :
               (Cancelled(k) /\ last = NoCall /\ NamesRecord(last', k))
               => (last'.res # Ok /\ NothingChanged)
          /\ (Attempt("Withdraw") /\ last'.res = Ok)
               => tok'[last'.accounts[1]].state = "Closed"
          /\ \A t \in TokenKeys :
               tok[t].state = "Closed" => tok'[t] = tok[t]]_vars

\* C14 witness: after a Cancel closed the record and its holding account, a
\* second Cancel with the same accounts, signed by the initializer, was refused.
C14_Witness ==
    /\ last.op = "Withdraw" /\ last.res # Ok
    /\ Len(last.accounts) = 6 /\ last.accounts[6] = PDA
    /\ last.accounts[4] \in EscrowKeys /\ Cancelled(last.accounts[4])
    /\ last.accounts[1] \in TokenKeys /\ tok[last.accounts[1]].state = "Closed"
    /\ last.accounts[2] \in last.signers

\* C15 (as stated): every successful Cancel that moves a positive balance
\* credits a token account whose authority is the record's initializer.
C15_CancelCreditsInitializer ==
    [][(Attempt("Withdraw") /\ last'.res = Ok /\ tok[last'.accounts[1]].amount > 0)
       => tok[last'.accounts[3]].owner
            = RecordAt(last'.accounts[4]).initializer_pubkey]_vars

\* C16: while a record is active its holding account is a live token account
\* whose authority is the derived address and neither party, whatever calls
\* the parties make to the token service themselves, and the holding
\* account's balance decreases only in a successful Exchange or Cancel.
C16_HoldingAccountProgramControlled ==
    /\ [](\A k \in EscrowKeys : IsActive(esc[k])
            => /\ HoldingDelegated(k)
               /\ tok[RecordAt(k).temp_token_account_pubkey].owner \notin Wallets)
    /\ [][\A k \in EscrowKeys :
            LET t == RecordAt(k).temp_token_account_pubkey IN
            (IsActive(esc[k]) /\ tok'[t].amount < tok[t].amount)
            => (last'.op \in {"Deposit", "Withdraw"} /\ last'.res = Ok)]_vars

\* C16 witness: the initializer of an active record signed a direct transfer
\* out of the funded holding account and the token service refused it.
C16_Witness ==
    /\ last.op = "DirectTransfer" /\ last.res = "OwnerMismatch"
    /\ \E k \in EscrowKeys :
         /\ IsActive(esc[k])
         /\ RecordAt(k).temp_token_account_pubkey = last.accounts[1]
         /\ RecordAt(k).initializer_pubkey = last.accounts[3]
    /\ tok[last.accounts[1]].amount >= last.amount
    /\ last.accounts[2] # last.accounts[1]

\* C17: an active record keeps all five fields in every step except the
\* successful Cancel that closes it: no Exchange, no failed Cancel and no
\* Init changes it.
C17_RecordImmutableWhileActive ==
    [][\A k \in EscrowKeys : IsActive(esc[k])
        => \/ esc'[k] = esc[k]
           \/ /\ esc'[k] = EmptyData
              /\ last'.op = "Withdraw" /\ last'.res = Ok /\ last'.accounts[4] = k]_vars

\* C17 witness: an Exchange moved a positive amount and the record it was
\* validated against is still active with the fields Init wrote.
C17_Witness ==
    /\ last.op = "Deposit" /\ last.res = Ok /\ last.amount > 0
    /\ IsActive(esc[last.accounts[5]])
    /\ RecordAt(last.accounts[5]).initializer_pubkey = last.accounts[4]
    /\ RecordAt(last.accounts[5]).temp_token_account_pubkey = last.accounts[3]

\* The storage deposits of the record at k, of its holding account and of its
\* initializer's main account do not fit one balance.
CancelOverflows(k) ==
    /\ IsActive(esc[k])
    /\ lam[RecordAt(k).initializer_pubkey]
         + lam[RecordAt(k).temp_token_account_pubkey] + lam[k] > MaxLamports

\* C18: in every reachable state, for every active record, the Cancel the
\* initializer signs alone with the record's holding account and its own main
\* account succeeds, whatever the taker did or did not do, unless adding up
\* the storage deposits overflows; and if the initializer keeps submitting
\* its Cancel, every active record is eventually closed (or its deposits
\* overflow).
C18_InitializerCanAlwaysCancel ==
    /\ [](\A k \in EscrowKeys : IsActive(esc[k])
            => /\ InitializerCancelAccounts(k) # {}
               /\ \A accounts \in InitializerCancelAccounts(k) :
                    LET r == ProcessWithdraw(Cur, accounts, {accounts[2]}, 0) IN
                    IF CancelOverflows(k) THEN r.res \in {"Overflow", "AmountOverflow"}
                    ELSE r.res = Ok)
    /\ \A k \in EscrowKeys :
         IsActive(esc[k]) ~> (esc[k] = EmptyData \/ CancelOverflows(k))

\* C18 witness: a record on which no Exchange ever succeeded, with a funded
\* holding account, was closed by a Cancel its initializer signed alone.
C18_Witness ==
    /\ last.op = "Withdraw" /\ last.res = Ok
    /\ last.signers = {last.accounts[2]}
    /\ esc[last.accounts[4]] = EmptyData
    /\ ran[last.accounts[4]] = {"Withdraw"}
    /\ tok[last.accounts[3]].owner = last.accounts[2]
    /\ tok[last.accounts[3]].amount > 0

\* C19: no two active records name the same holding account; an Init naming
\* a holding account whose authority already is the derived address fails and
\* changes nothing, its record included; and an Exchange or Cancel that does
\* not name an active record never takes tokens out of that record's holding
\* account, closes it or changes its authority.
C19_HoldingAccountsDistinct ==
    /\ [](\A j, k \in EscrowKeys :
            (j # k /\ IsActive(esc[j]) /\ IsActive(esc[k]))
            => RecordAt(j).temp_token_account_pubkey
                 # RecordAt(k).temp_token_account_pubkey)
    /\ [][/\ (Attempt("InitEscrow") /\ Acc(last', 2) \in TokenKeys
              /\ tok[Acc(last', 2)].owner = PDA)
             => (last'.res # Ok /\ NothingChanged)
          /\ \A k \in EscrowKeys :
               LET t == RecordAt(k).temp_token_account_pubkey IN
               (/\ last = NoCall /\ last'.op \in {"Deposit", "Withdraw"}
                /\ ~NamesRecord(last', k) /\ IsActive(esc[k]))
               => /\ tok'[t].amount >= tok[t].amount
                  /\ tok'[t].state = tok[t].state
                  /\ tok'[t].owner = tok[t].owner]_vars

\* C19 witness: the initializer of an active record signed a second Init
\* naming the same holding account and a fresh record; the token service
\* refused the delegation and the fresh record is still all zero.
C19_Witness ==
    /\ last.op = "InitEscrow" /\ last.res = "OwnerMismatch"
    /\ last.accounts[1] \in last.signers
    /\ esc[last.accounts[4]] = ZeroData
    /\ \E k \in EscrowKeys :
         /\ k # last.accounts[4] /\ IsActive(esc[k])
         /\ RecordAt(k).temp_token_account_pubkey = last.accounts[2]
         /\ RecordAt(k).initializer_pubkey = last.accounts[1]

=============================================================================
